---- MODULE Spec2Model ----
(***************************************************************************)
(* Playback adapters of imsplay: the tick-accumulator surface              *)
(* (wasm/adplug/adapter.cpp, the emu_ calls), its virtual file store and    *)
(* stream provider, and the frame-pull surface                             *)
(* (wasm/libopenmpt/adapter.cpp, the mpt_ calls).                          *)
(*                                                                         *)
(* Conventions.  A C string is a sequence of character codes (never 0);    *)
(* a null char* is NullName.  A byte buffer is a sequence of bytes; a null *)
(* data pointer is NullData.  The globals of each adapter are the fields   *)
(* of one record (emu, mpt), named as in the source, so that an operation  *)
(* is an operator from state to state.  g_sampleAccumulator is kept in     *)
(* units of 1/AccDen sample: with the refresh rates of RefreshRates every  *)
(* quota sampleRate/refreshRate is a whole number of units.                *)
(***************************************************************************)
EXTENDS Integers, Sequences, FiniteSets, Bags, TLC

VARIABLES adapter, emu, pc, samplesGenerated, written, mpt, last

vars == <<adapter, emu, pc, samplesGenerated, written, mpt, last>>

(***************************************************************************)
(* Bounds of the model.                                                    *)
(***************************************************************************)
\* the backend's tick primitive reports the end at the latest at this tick
MaxTicks == 3
\* as MaxTicks, for the end-to-end playback specification
MaxPlayTicks == 7
\* length of a module of the frame-pull backend, in render steps
MptSongLen == 2
\* as MaxTicks, for the specification with a bank file
AuxTicks == 2

(***************************************************************************)
(* Program constants.                                                      *)
(***************************************************************************)
AUDIO_BUFFER_SIZE == 512
AUDIO_BUFFER_FRAMES == 1024
DefaultSampleRate == 49716
MptDefaultSampleRate == 48000
DefaultRefresh == 70
\* sizeof(int16_t) * 2 channels
BytesPerSample == 4
\* g_sampleAccumulator is held in units of 1/AccDen sample: every quota
\* sampleRate / refreshRate the model draws is a whole number of units, up
\* to the rounding of the float the code holds
AccDen == 350

(***************************************************************************)
(* Characters and names.                                                   *)
(***************************************************************************)
Slash == 47
Backslash == 92
UpperA == 65
UpperZ == 90
LowerA == 97

NullName == <<0>>
NullData == <<-1>>

\* "a", "A", "b", "d/a", "D\A", "d/A", "a/"
NameLowerA == <<97>>
NameUpperA == <<65>>
NameLowerB == <<98>>
NameDirLowerA == <<100, 47, 97>>
NameDirUpperA == <<68, 92, 65>>
NameMixed == <<100, 47, 65>>
NameTrailing == <<97, 47>>

\* names the store specification registers, and names it asks for
StoreNames == {NameLowerA, NameUpperA, NameDirLowerA}

RequestNames ==
    {NameLowerA, NameUpperA, NameLowerB, NameDirLowerA, NameDirUpperA,
     NameMixed, NameTrailing}

\* names of the auxiliary-file specification: a song "b" and a bank "A",
\* which the backend asks for as "a"
BankNames == {NameLowerB, NameUpperA}
BankRequests == {NameLowerA}

\* names the backend asks for in the store specification
StoreRequests == {NameLowerA, NameDirLowerA, NameLowerB}

\* names of the session specification
Names == {NameLowerB}
AuxNames == {}

\* file contents handed in by the host, and the sizes handed in with them
Blobs == {<<7>>, <<7, 9>>}
Sizes == {-1, 0, 1, 2}

SampleRates == {0, 22050}
RefreshRates == {-1, 0, 50, 70}
Subsongs == {1}
SeekTargets == {25}

(***************************************************************************)
(* toLower, getFilename                                                    *)
(***************************************************************************)
ToLowerChar(c) == IF c >= UpperA /\ c <= UpperZ THEN c - UpperA + LowerA ELSE c

\* faulty variant of toLower: the case is kept
ToLowerNone(s) == s

toLower(s) == [i \in 1..Len(s) |-> ToLowerChar(s[i])]

\* path.find_last_of("/\\"): the last index holding a separator, 0 for npos
FindLastSep(path) ==
    LET seps == {i \in 1..Len(path) : path[i] = Slash \/ path[i] = Backslash}
    IN  IF seps = {} THEN 0 ELSE CHOOSE i \in seps : \A j \in seps : j <= i

getFilename(path) ==
    LET pos == FindLastSep(path)
    IN  IF pos /= 0 THEN SubSeq(path, pos + 1, Len(path)) ELSE path

(***************************************************************************)
(* std::map<std::string, FileData>: keys are ordered as std::string        *)
(* compares them (by character, a proper prefix first).                    *)
(***************************************************************************)
RECURSIVE StrLess(_, _)
StrLess(a, b) ==
    IF b = <<>> THEN FALSE
    ELSE IF a = <<>> THEN TRUE
    ELSE IF Head(a) /= Head(b) THEN Head(a) < Head(b)
    ELSE StrLess(Tail(a), Tail(b))

\* the first key, in the map's iteration order, among keys
FirstKey(keys) == CHOOSE k \in keys : \A o \in keys : o = k \/ StrLess(k, o)

(***************************************************************************)
(* The heap: the byte buffers made by new[] and not yet given to delete[], *)
(* as a bag of their contents.  A pointer to a buffer is modelled by the   *)
(* buffer's contents; delete[] of a buffer that is not live is recorded in *)
(* heapFault.                                                              *)
(***************************************************************************)
HeapNew(s, bytes) == [s EXCEPT !.heap = @ (+) SetToBag({bytes})]

HeapDelete(s, bytes) ==
    IF BagIn(bytes, s.heap)
    THEN [s EXCEPT !.heap = @ (-) SetToBag({bytes})]
    ELSE [s EXCEPT !.heapFault = TRUE]

\* memcpy(dataCopy, data, size)
Memcpy(data, size) == SubSeq(data, 1, size)

(***************************************************************************)
(* CProvider_Memory                                                        *)
(***************************************************************************)
NoKey == NullName

\* the three-tier lookup of open: the key of g_files it ends on, or NoKey
\* for g_files.end()
FindExact(files, filename) ==
    IF filename \in DOMAIN files THEN filename ELSE NoKey

FindJustName(files, filename) ==
    IF getFilename(filename) \in DOMAIN files THEN getFilename(filename) ELSE NoKey

FindNoCase(files, filename) ==
    LET lowerName == toLower(getFilename(filename))
        hits == {k \in DOMAIN files : toLower(getFilename(k)) = lowerName}
    IN  IF hits = {} THEN NoKey ELSE FirstKey(hits)

\* faulty variant of the lookup: the case-insensitive tier is tried first
LookupFuzzyFirst(files, filename) ==
    LET c == FindNoCase(files, filename)
        a == IF c = NoKey THEN FindExact(files, filename) ELSE c
    IN  IF a = NoKey THEN FindJustName(files, filename) ELSE a

\* faulty variant of the lookup: the filename-only tier is left out
LookupNoJustName(files, filename) ==
    LET a == FindExact(files, filename)
    IN  IF a = NoKey THEN FindNoCase(files, filename) ELSE a

Lookup(files, filename) ==
    LET a == FindExact(files, filename)
        b == IF a = NoKey THEN FindJustName(files, filename) ELSE a
    IN  IF b = NoKey THEN FindNoCase(files, filename) ELSE b

\* the bytes open copies for its stream, NullData when the lookup ends on
\* g_files.end() and open returns nullptr
OpenedBytes(s, filename) ==
    LET key == Lookup(s.g_files, filename)
    IN  IF key = NoKey THEN NullData
        ELSE Memcpy(s.g_files[key].data, s.g_files[key].size)

\* faulty variant of open: the stream reads the store's buffer, no copy made
ProviderOpenShared(s, filename) ==
    LET dataCopy == OpenedBytes(s, filename)
    IN  IF dataCopy = NullData THEN s
        ELSE [s EXCEPT !.m_streamBuffers = @ (+) SetToBag({dataCopy})]

\* open: the state after the call; a stream is named by its private buffer
ProviderOpen(s, filename) ==
    LET dataCopy == OpenedBytes(s, filename)
    IN  IF dataCopy = NullData THEN s
        ELSE [HeapNew(s, dataCopy) EXCEPT
                !.m_streamBuffers = @ (+) SetToBag({dataCopy})]

\* faulty variant of close: the buffer is freed but stays in the map
ProviderCloseKeepsEntry(s, f) ==
    IF f = NullData THEN s
    ELSE IF BagIn(f, s.m_streamBuffers) THEN HeapDelete(s, f)
    ELSE s

\* close(f), f = NullData for nullptr
ProviderClose(s, f) ==
    IF f = NullData THEN s
    ELSE IF BagIn(f, s.m_streamBuffers)
         THEN [HeapDelete(s, f) EXCEPT
                !.m_streamBuffers = @ (-) SetToBag({f})]
         ELSE s

(***************************************************************************)
(* The tick-accumulator surface.                                           *)
(***************************************************************************)
NoPlayer == [loaded |-> FALSE, song |-> <<>>, auxName |-> NullName,
             bank |-> NullData]

NoFiles == [n \in {} |-> 0]

EmuInitial ==
    [g_opl |-> FALSE, g_player |-> NoPlayer, g_sampleRate |-> DefaultSampleRate,
     g_audioBuffer |-> FALSE, g_audioBufferLength |-> 0,
     g_currentPosition |-> 0, g_maxPosition |-> 0,
     g_sampleAccumulator |-> 0, g_totalSamplesGenerated |-> 0,
     g_currentTick |-> 0, g_info |-> <<>>,
     g_files |-> NoFiles, m_streamBuffers |-> EmptyBag,
     heap |-> EmptyBag, heapFault |-> FALSE]

\* for (auto& pair : g_files) delete[] pair.second.data; g_files.clear();
RECURSIVE DeleteAll(_, _)
DeleteAll(s, keys) ==
    IF keys = {} THEN s
    ELSE LET k == FirstKey(keys)
         IN  DeleteAll(HeapDelete(s, s.g_files[k].data), keys \ {k})

ClearFiles(s) == [DeleteAll(s, DOMAIN s.g_files) EXCEPT !.g_files = NoFiles]

\* faulty variant of ReleaseSession: the three ifs chained by else
ReleaseSessionElseIf(s) ==
    IF s.g_player.loaded THEN [s EXCEPT !.g_player = NoPlayer]
    ELSE IF s.g_opl THEN [s EXCEPT !.g_opl = FALSE]
    ELSE [s EXCEPT !.g_audioBuffer = FALSE]

\* delete g_player; delete g_opl; delete[] g_audioBuffer (each if non-null)
ReleaseSession(s) ==
    [s EXCEPT !.g_player = NoPlayer, !.g_opl = FALSE, !.g_audioBuffer = FALSE]

emu_init(s, sampleRate) ==
    [ClearFiles(ReleaseSession(s)) EXCEPT
        !.g_sampleRate = IF sampleRate > 0 THEN sampleRate ELSE DefaultSampleRate,
        !.g_opl = TRUE,
        !.g_audioBuffer = TRUE,
        !.g_audioBufferLength = 0,
        !.g_currentPosition = 0,
        !.g_maxPosition = 0,
        !.g_sampleAccumulator = 0,
        !.g_totalSamplesGenerated = 0,
        !.g_currentTick = 0]

emu_teardown(s) ==
    [ClearFiles(ReleaseSession(s)) EXCEPT
        !.g_audioBufferLength = 0,
        !.g_currentPosition = 0,
        !.g_maxPosition = 0]

\* the checks of the arguments
AddArgsBad(filename, data, size) ==
    filename = NullName \/ data = NullData \/ size <= 0

\* faulty variant of RemoveExisting: the old buffer is not given to delete[]
RemoveExistingNoDelete(s, filename) ==
    [s EXCEPT !.g_files = [k \in (DOMAIN s.g_files) \ {filename} |-> s.g_files[k]]]

\* the body of emu_add_file after the checks of the arguments
RemoveExisting(s, filename) ==
    IF filename \in DOMAIN s.g_files
    THEN [HeapDelete(s, s.g_files[filename].data) EXCEPT
            !.g_files = [k \in (DOMAIN s.g_files) \ {filename} |-> s.g_files[k]]]
    ELSE s

StoreCopy(s, filename, data, size) ==
    LET dataCopy == Memcpy(data, size)
        entry == [data |-> dataCopy, size |-> size]
    IN  [HeapNew(s, dataCopy) EXCEPT
            !.g_files = [k \in (DOMAIN s.g_files) \cup {filename} |->
                            IF k = filename THEN entry ELSE s.g_files[k]]]

\* an operation's outcome: the state it leaves and the status it returns
Outcome(s, r) == [st |-> s, ret |-> r]

emu_add_file(s, filename, data, size) ==
    IF AddArgsBad(filename, data, size) THEN Outcome(s, -1)
    ELSE Outcome(StoreCopy(RemoveExisting(s, filename), filename, data, size), 0)

(***************************************************************************)
(* The backend behind CAdPlug::factory and CPlayer, as far as the adapter  *)
(* sees it.  What it decides is an input of the call: whether it           *)
(* recognises the file (recognised), which auxiliary file it asks the      *)
(* provider for if any (aux), whether a tick reports the end (a tick       *)
(* numbered tickBound always does), and the refresh rate it reports.       *)
(* It closes every stream it opened before factory returns.                *)
(***************************************************************************)
BackendSongLength(song, subsong) ==
    (Len(song) + (IF subsong > 0 THEN subsong ELSE 0)) * 1000

\* the backend reads a file: open, read to the end, close
OpenReadClose(s, filename) ==
    ProviderClose(ProviderOpen(s, filename), OpenedBytes(s, filename))

\* the element of a singleton: binds an intermediate state to its value
The(S) == CHOOSE x \in S : TRUE

\* the provider's state after factory, and the player it made
Factory(s, filename, recognised, aux) ==
    [st |-> IF aux = NullName THEN OpenReadClose(s, filename)
            ELSE The({OpenReadClose(s1, aux) : s1 \in {OpenReadClose(s, filename)}}),
     player |-> IF recognised /\ OpenedBytes(s, filename) /= NullData
                THEN [loaded |-> TRUE,
                      song |-> OpenedBytes(s, filename),
                      auxName |-> aux,
                      bank |-> IF aux = NullName THEN NullData
                               ELSE OpenedBytes(s, aux)]
                ELSE NoPlayer]

\* faulty variant of LoadArgsBad: the size is not looked at
LoadArgsBadNoSize(s, filename, data, size) ==
    ~s.g_opl \/ filename = NullName \/ data = NullData

LoadArgsBad(s, filename, data, size) ==
    ~s.g_opl \/ filename = NullName \/ data = NullData \/ size <= 0

\* lines 277-292: the old player is deleted, the clock reset, the main file
\* registered
PrepareLoad(s, filename, data, size) ==
    emu_add_file([s EXCEPT !.g_player = NoPlayer,
                           !.g_sampleAccumulator = 0,
                           !.g_totalSamplesGenerated = 0,
                           !.g_currentTick = 0],
                 filename, data, size).st

\* faulty variant of FinishLoad: the track info is not copied
FinishLoadNoInfo(made) ==
    IF ~made.player.loaded
    THEN Outcome([made.st EXCEPT !.g_player = NoPlayer], -1)
    ELSE Outcome([made.st EXCEPT
                    !.g_player = made.player,
                    !.g_maxPosition = BackendSongLength(made.player.song, -1),
                    !.g_currentPosition = 0], 0)

\* lines 298-312: made is what factory returned
FinishLoad(made) ==
    IF ~made.player.loaded
    THEN Outcome([made.st EXCEPT !.g_player = NoPlayer], -1)
    ELSE Outcome([made.st EXCEPT
                    !.g_player = made.player,
                    !.g_info = made.player.song,
                    !.g_maxPosition = BackendSongLength(made.player.song, -1),
                    !.g_currentPosition = 0], 0)

\* faulty variant of emu_load_file: the old player is deleted only once the
\* factory has made a new one
LoadKeepsTrackOnFailure(s, filename, data, size, recognised, aux) ==
    IF LoadArgsBad(s, filename, data, size) THEN Outcome(s, -1)
    ELSE IF ~recognised
         THEN Outcome(emu_add_file(s, filename, data, size).st, -1)
    ELSE The({FinishLoad(made) :
                made \in {Factory(pre, filename, recognised, aux) :
                            pre \in {PrepareLoad(s, filename, data, size)}}})

emu_load_file(s, filename, data, size, recognised, aux) ==
    IF LoadArgsBad(s, filename, data, size) THEN Outcome(s, -1)
    ELSE The({FinishLoad(made) :
                made \in {Factory(pre, filename, recognised, aux) :
                            pre \in {PrepareLoad(s, filename, data, size)}}})

emu_seek_position(s, ms) ==
    IF s.g_player.loaded THEN [s EXCEPT !.g_currentPosition = ms] ELSE s

emu_set_subsong(s, subsong) ==
    IF s.g_player.loaded
    THEN [s EXCEPT !.g_maxPosition = BackendSongLength(s.g_player.song, subsong),
                   !.g_currentPosition = 0]
    ELSE s

\* faulty variant of emu_rewind: the position is left alone
RewindKeepsPosition(s) ==
    IF s.g_player.loaded
    THEN [s EXCEPT !.g_currentTick = 0,
                   !.g_sampleAccumulator = 0,
                   !.g_totalSamplesGenerated = 0]
    ELSE s

emu_rewind(s) ==
    IF s.g_player.loaded
    THEN [s EXCEPT !.g_currentPosition = 0,
                   !.g_currentTick = 0,
                   !.g_sampleAccumulator = 0,
                   !.g_totalSamplesGenerated = 0]
    ELSE s

emu_get_current_position(s) == s.g_currentPosition

\* faulty variant of getSamplesPerTick: no default for a rate that is not
\* positive, which then adds nothing
SamplesPerTickNoDefault(s, refreshRate) ==
    IF ~s.g_player.loaded \/ refreshRate <= 0 THEN 0
    ELSE (s.g_sampleRate * AccDen) \div refreshRate

\* getSamplesPerTick, in units of 1/AccDen sample; refreshRate is what
\* g_player->getrefresh() answers
getSamplesPerTick(s, refreshRate) ==
    IF ~s.g_player.loaded THEN 0
    ELSE (s.g_sampleRate * AccDen) \div
            (IF refreshRate <= 0 THEN DefaultRefresh ELSE refreshRate)

\* static_cast<int>(g_sampleAccumulator)
SamplesToGenerate(s) == s.g_sampleAccumulator \div AccDen

\* faulty variant of ToGenerate: not held to what is left of the block
ToGenerateAll(s, generated) == SamplesToGenerate(s)

\* faulty variant of ToGenerate: the larger of the two, not the smaller
ToGenerateMax(s, generated) ==
    LET remaining == AUDIO_BUFFER_SIZE - generated
    IN  IF SamplesToGenerate(s) < remaining THEN remaining ELSE SamplesToGenerate(s)

\* lines 333-334
ToGenerate(s, generated) ==
    LET remaining == AUDIO_BUFFER_SIZE - generated
    IN  IF SamplesToGenerate(s) < remaining THEN SamplesToGenerate(s) ELSE remaining

\* lines 331-341: one pass of the render half of the loop body
RenderPart(s, generated) ==
    IF SamplesToGenerate(s) > 0
    THEN [s EXCEPT !.g_sampleAccumulator = @ - ToGenerate(s, generated) * AccDen]
    ELSE s

RenderedNow(s, generated) ==
    IF SamplesToGenerate(s) > 0 THEN ToGenerate(s, generated) ELSE 0

\* faulty variant of FinishBlock: the position is rounded to the nearest
\* millisecond
FinishBlockRounds(s, generated) ==
    LET total == s.g_totalSamplesGenerated + generated
    IN  [s EXCEPT !.g_totalSamplesGenerated = total,
                  !.g_currentPosition =
                      (2 * total * 1000 + s.g_sampleRate) \div (2 * s.g_sampleRate),
                  !.g_audioBufferLength = generated * BytesPerSample]

\* faulty variant of FinishBlock: the total is assigned, not added to
FinishBlockAssign(s, generated) ==
    [s EXCEPT !.g_totalSamplesGenerated = generated,
              !.g_currentPosition = (generated * 1000) \div s.g_sampleRate,
              !.g_audioBufferLength = generated * BytesPerSample]

\* lines 361-366: the block is full
FinishBlock(s, generated) ==
    LET total == s.g_totalSamplesGenerated + generated
    IN  [s EXCEPT !.g_totalSamplesGenerated = total,
                  !.g_currentPosition = (total * 1000) \div s.g_sampleRate,
                  !.g_audioBufferLength = generated * BytesPerSample]

\* lines 348-352: the tick reported the end of the song
EndBlock(s, generated) ==
    [s EXCEPT !.g_currentTick = @ + 1,
              !.g_audioBufferLength = generated * BytesPerSample]

\* lines 345-356: the tick goes on
TickOn(s, refreshRate) ==
    [s EXCEPT !.g_currentTick = @ + 1,
              !.g_sampleAccumulator = @ + getSamplesPerTick(s, refreshRate)]

ComputeGuardFails(s) == ~s.g_player.loaded \/ ~s.g_opl \/ ~s.g_audioBuffer

(***************************************************************************)
(* The frame-pull surface.  The module of the backend is MptSongLen render *)
(* steps long, plays repeat + 1 times (for ever when repeat is -1) and     *)
(* then renders no frame.                                                  *)
(***************************************************************************)
NoModule == [loaded |-> FALSE, song |-> <<>>, repeat |-> 0, pos |-> 0, loops |-> 0]

MptInitial ==
    [g_module |-> NoModule, g_sampleRate |-> MptDefaultSampleRate,
     g_audioBuffer |-> FALSE, g_audioBufferFrames |-> 0, g_repeatCount |-> 0,
     g_info |-> <<>>]

RepeatCounts == {-1, 0, 1}
MptFrames == {300, 1024}
MptSeekTargets == {1}

\* openmpt_module_set_repeat_count
ModuleSetRepeat(m, count) == [m EXCEPT !.repeat = count]

\* openmpt_module_set_position_seconds
ModuleSetPosition(m, seconds) ==
    [m EXCEPT !.pos = IF seconds > MptSongLen THEN MptSongLen ELSE seconds]

\* openmpt_module_read_interleaved_float_stereo: whether it renders
ModuleRenders(m) == m.pos < MptSongLen \/ m.repeat = -1 \/ m.loops < m.repeat

\* loops counts the repeats begun, up to MaxLoops
MaxLoops == 2

ModuleAfterRead(m) ==
    IF m.pos < MptSongLen THEN [m EXCEPT !.pos = @ + 1]
    ELSE IF m.repeat = -1 \/ m.loops < m.repeat
         THEN [m EXCEPT !.pos = 1,
                        !.loops = IF @ < MaxLoops THEN @ + 1 ELSE @]
    ELSE m

\* malloc of the audio buffer succeeds or not (allocOk)
mpt_init(s, sampleRate, allocOk) ==
    LET s1 == [s EXCEPT
                  !.g_module = NoModule,
                  !.g_sampleRate = IF sampleRate > 0 THEN sampleRate
                                   ELSE MptDefaultSampleRate]
    IN  IF ~allocOk THEN Outcome([s1 EXCEPT !.g_audioBuffer = FALSE], -1)
        ELSE Outcome([s1 EXCEPT !.g_audioBuffer = TRUE,
                                !.g_audioBufferFrames = 0,
                                !.g_info = <<>>], 0)

mpt_teardown(s) ==
    [s EXCEPT !.g_module = NoModule, !.g_audioBuffer = FALSE,
              !.g_audioBufferFrames = 0]

MptArgsBad(data, size) == data = NullData \/ size <= 0

\* faulty variant of ConfigureModule: the repeat count is not applied
ConfigureModuleSkipped(s, m) == m

\* lines 117-122: the module made is given the session's repeat count
ConfigureModule(s, m) == ModuleSetRepeat(m, s.g_repeatCount)

mpt_load_file(s, filename, data, size, recognised) ==
    IF MptArgsBad(data, size) THEN Outcome(s, -1)
    ELSE IF ~recognised THEN Outcome([s EXCEPT !.g_module = NoModule], -1)
    ELSE LET m == [loaded |-> TRUE, song |-> Memcpy(data, size), repeat |-> 0,
                   pos |-> 0, loops |-> 0]
         IN  Outcome([s EXCEPT !.g_module = ConfigureModule(s, m),
                               !.g_info = Memcpy(data, size)], 0)

mpt_compute_audio_samples(s, frames) ==
    IF ~s.g_module.loaded \/ ~s.g_audioBuffer
    THEN Outcome([s EXCEPT !.g_audioBufferFrames = 0], 1)
    ELSE LET framesRead == IF ModuleRenders(s.g_module) THEN frames ELSE 0
             s1 == [s EXCEPT !.g_module = ModuleAfterRead(@),
                             !.g_audioBufferFrames = framesRead]
         IN  Outcome(s1, IF framesRead = 0 THEN 1 ELSE 0)

mpt_set_position_seconds(s, seconds) ==
    IF s.g_module.loaded
    THEN [s EXCEPT !.g_module = ModuleSetPosition(@, seconds)]
    ELSE s

\* faulty variant of mpt_set_repeat_count: a loaded module is not told
SetRepeatStoredOnly(s, count) == [s EXCEPT !.g_repeatCount = count]

mpt_set_repeat_count(s, count) ==
    LET s1 == [s EXCEPT !.g_repeatCount = count]
    IN  IF s.g_module.loaded
        THEN [s1 EXCEPT !.g_module = ModuleSetRepeat(@, count)]
        ELSE s1

mpt_rewind(s) ==
    IF s.g_module.loaded THEN [s EXCEPT !.g_module = ModuleSetPosition(@, 0)] ELSE s

(***************************************************************************)
(* The calls as actions.  The host serialises its calls: a call starts     *)
(* only while no computeSamples of the tick surface is under way           *)
(* (pc = "idle").  last is the call that returned last: its name, its      *)
(* status, whether its arguments were invalid, and whether it registered   *)
(* a name the store held already.  written counts the                      *)
(* samples written to the audio buffer since the track was loaded or       *)
(* rewound.                                                                *)
(***************************************************************************)
Done(op, r, b) == [op |-> op, ret |-> r, bad |-> b, re |-> FALSE]

\* a registration that returned: re tells whether the name was registered
\* before the call
Registered(op, r, s, filename) ==
    [op |-> op, ret |-> r, bad |-> FALSE, re |-> filename \in DOMAIN s.g_files]

Adapters == {"adplug", "libopenmpt"}

Init ==
    /\ adapter \in Adapters
    /\ emu = EmuInitial
    /\ pc = "idle"
    /\ samplesGenerated = 0
    /\ written = 0
    /\ mpt = MptInitial
    /\ last = Done("none", 0, FALSE)

\* a call of the tick surface may start
EmuIdle == adapter = "adplug" /\ pc = "idle"

\* a call of the frame-pull surface may start
MptIdle == adapter = "libopenmpt"

EmuInit ==
    /\ EmuIdle
    /\ \E r \in SampleRates : emu' = emu_init(emu, r)
    /\ written' = 0
    /\ last' = Done("init", 0, FALSE)
    /\ UNCHANGED <<adapter, pc, samplesGenerated, mpt>>

EmuTeardown ==
    /\ EmuIdle
    /\ emu' = emu_teardown(emu)
    /\ last' = Done("teardown", 0, FALSE)
    /\ UNCHANGED <<adapter, pc, samplesGenerated, written, mpt>>

\* the arguments a host may pass: size never exceeds the buffer passed
Args(filename, data, size) == [filename |-> filename, data |-> data, size |-> size]

ValidArgs(NS) ==
    {a \in [filename : NS, data : Blobs, size : Sizes] :
        a.size > 0 /\ a.size <= Len(a.data)}

InvalidArgs(NS) ==
    {Args(NullName, <<7>>, 1)}
        \cup {Args(n, NullData, 1) : n \in NS}
        \cup {Args(n, <<7>>, z) : n \in NS, z \in {z \in Sizes : z <= 0}}

EmuAddFile(NS) ==
    /\ EmuIdle
    /\ \E a \in ValidArgs(NS) :
        /\ emu' = emu_add_file(emu, a.filename, a.data, a.size).st
        /\ last' = Registered("addFile",
                              emu_add_file(emu, a.filename, a.data, a.size).ret,
                              emu, a.filename)
    /\ UNCHANGED <<adapter, pc, samplesGenerated, written, mpt>>

EmuAddFileInvalid(NS) ==
    /\ EmuIdle
    /\ \E a \in InvalidArgs(NS) :
        /\ emu' = emu_add_file(emu, a.filename, a.data, a.size).st
        /\ last' = Done("addFile", emu_add_file(emu, a.filename, a.data, a.size).ret, TRUE)
    /\ UNCHANGED <<adapter, pc, samplesGenerated, written, mpt>>

\* what the backend does with a file: it does not recognise it, or it makes
\* a player, after asking the provider for one more file or for none
Backend(AS) ==
    {[recognised |-> FALSE, aux |-> NullName]}
        \cup {[recognised |-> TRUE, aux |-> x] : x \in AS \cup {NullName}}

\* loadFile with valid arguments; without an engine (before init, after
\* teardown) the call is refused like one with invalid arguments
EmuLoadFile(NS, AS) ==
    /\ EmuIdle
    /\ \E a \in ValidArgs(NS), b \in Backend(AS) :
        LET o == emu_load_file(emu, a.filename, a.data, a.size, b.recognised, b.aux)
        IN  /\ emu' = o.st
            /\ written' = IF emu.g_opl THEN 0 ELSE written
            /\ last' = IF emu.g_opl THEN Registered("loadFile", o.ret, emu, a.filename)
                        ELSE Done("loadFile", o.ret, FALSE)
    /\ UNCHANGED <<adapter, pc, samplesGenerated, mpt>>

EmuLoadFileInvalid(NS) ==
    /\ EmuIdle
    /\ \E a \in InvalidArgs(NS) :
        LET o == emu_load_file(emu, a.filename, a.data, a.size, TRUE, NullName)
        IN  /\ emu' = o.st
            /\ last' = Done("loadFile", o.ret, TRUE)
    /\ UNCHANGED <<adapter, pc, samplesGenerated, written, mpt>>

EmuSeek ==
    /\ EmuIdle
    /\ \E ms \in SeekTargets : emu' = emu_seek_position(emu, ms)
    /\ last' = Done("seek", 0, FALSE)
    /\ UNCHANGED <<adapter, pc, samplesGenerated, written, mpt>>

EmuSetSubsong ==
    /\ EmuIdle
    /\ \E i \in Subsongs : emu' = emu_set_subsong(emu, i)
    /\ last' = Done("setSubsong", 0, FALSE)
    /\ UNCHANGED <<adapter, pc, samplesGenerated, written, mpt>>

EmuRewind ==
    /\ EmuIdle
    /\ emu' = emu_rewind(emu)
    /\ written' = IF emu.g_player.loaded THEN 0 ELSE written
    /\ last' = Done("rewind", 0, FALSE)
    /\ UNCHANGED <<adapter, pc, samplesGenerated, mpt>>

\* emu_compute_audio_samples, lines 322-324: nothing to play
ComputeNothing ==
    /\ EmuIdle
    /\ ComputeGuardFails(emu)
    /\ last' = Done("compute", 1, FALSE)
    /\ UNCHANGED <<adapter, emu, pc, samplesGenerated, written, mpt>>

\* lines 326-327.  A session is driven for at most tickBound ticks between
\* two resets of the tick counter.
ComputeBegin(tickBound) ==
    /\ EmuIdle
    /\ ~ComputeGuardFails(emu)
    /\ emu.g_currentTick < tickBound
    /\ pc' = "render"
    /\ samplesGenerated' = 0
    /\ last' = Done("computing", 0, FALSE)
    /\ UNCHANGED <<adapter, emu, written, mpt>>

\* lines 329-341: the loop goes on, the samples owed are rendered
ComputeRender ==
    /\ pc = "render"
    /\ samplesGenerated < AUDIO_BUFFER_SIZE
    /\ emu' = RenderPart(emu, samplesGenerated)
    /\ samplesGenerated' = samplesGenerated + RenderedNow(emu, samplesGenerated)
    /\ written' = written + RenderedNow(emu, samplesGenerated)
    /\ pc' = "tick"
    /\ UNCHANGED <<adapter, mpt, last>>

\* line 344: the block is full, no tick
ComputeSkipTick ==
    /\ pc = "tick"
    /\ samplesGenerated >= AUDIO_BUFFER_SIZE
    /\ pc' = "render"
    /\ UNCHANGED <<adapter, emu, samplesGenerated, written, mpt, last>>

\* lines 344-357: the next tick, which goes on
ComputeTick(tickBound) ==
    /\ pc = "tick"
    /\ samplesGenerated < AUDIO_BUFFER_SIZE
    /\ emu.g_currentTick + 1 < tickBound
    /\ \E refreshRate \in RefreshRates : emu' = TickOn(emu, refreshRate)
    /\ pc' = "render"
    /\ UNCHANGED <<adapter, samplesGenerated, written, mpt, last>>

\* lines 344-352: the next tick, which reports the end of the song
ComputeEnd ==
    /\ pc = "tick"
    /\ samplesGenerated < AUDIO_BUFFER_SIZE
    /\ emu' = EndBlock(emu, samplesGenerated)
    /\ pc' = "idle"
    /\ last' = Done("compute", 1, FALSE)
    /\ UNCHANGED <<adapter, samplesGenerated, written, mpt>>

\* lines 360-367: the loop has ended on a full block
ComputeFinish ==
    /\ pc = "render"
    /\ samplesGenerated >= AUDIO_BUFFER_SIZE
    /\ emu' = FinishBlock(emu, samplesGenerated)
    /\ pc' = "idle"
    /\ last' = Done("compute", 0, FALSE)
    /\ UNCHANGED <<adapter, samplesGenerated, written, mpt>>

MptInit ==
    /\ MptIdle
    /\ \E r \in {0, MptDefaultSampleRate}, allocOk \in BOOLEAN :
        /\ mpt' = mpt_init(mpt, r, allocOk).st
        /\ last' = Done("init", mpt_init(mpt, r, allocOk).ret, FALSE)
    /\ UNCHANGED <<adapter, emu, pc, samplesGenerated, written>>

MptTeardown ==
    /\ MptIdle
    /\ mpt' = mpt_teardown(mpt)
    /\ last' = Done("teardown", 0, FALSE)
    /\ UNCHANGED <<adapter, emu, pc, samplesGenerated, written>>

MptLoadFile ==
    /\ MptIdle
    /\ \E a \in ValidArgs({NameLowerB}) \cup InvalidArgs({NameLowerB}),
          recognised \in BOOLEAN :
        LET o == mpt_load_file(mpt, a.filename, a.data, a.size, recognised)
        IN  /\ mpt' = o.st
            /\ last' = Done("loadFile", o.ret, MptArgsBad(a.data, a.size))
    /\ UNCHANGED <<adapter, emu, pc, samplesGenerated, written>>

MptCompute ==
    /\ MptIdle
    /\ \E frames \in MptFrames :
        /\ mpt' = mpt_compute_audio_samples(mpt, frames).st
        /\ last' = Done("compute", mpt_compute_audio_samples(mpt, frames).ret, FALSE)
    /\ UNCHANGED <<adapter, emu, pc, samplesGenerated, written>>

MptSeek ==
    /\ MptIdle
    /\ \E seconds \in MptSeekTargets : mpt' = mpt_set_position_seconds(mpt, seconds)
    /\ last' = Done("seek", 0, FALSE)
    /\ UNCHANGED <<adapter, emu, pc, samplesGenerated, written>>

MptSetRepeatCount ==
    /\ MptIdle
    /\ \E count \in RepeatCounts : mpt' = mpt_set_repeat_count(mpt, count)
    /\ last' = Done("setRepeatCount", 0, FALSE)
    /\ UNCHANGED <<adapter, emu, pc, samplesGenerated, written>>

MptRewind ==
    /\ MptIdle
    /\ mpt' = mpt_rewind(mpt)
    /\ last' = Done("rewind", 0, FALSE)
    /\ UNCHANGED <<adapter, emu, pc, samplesGenerated, written>>

(***************************************************************************)
(* Specifications.                                                         *)
(***************************************************************************)
Next ==
    \/ EmuInit
    \/ EmuTeardown
    \/ EmuAddFile(Names)
    \/ EmuAddFileInvalid(Names)
    \/ EmuLoadFile(Names, AuxNames)
    \/ EmuLoadFileInvalid(Names)
    \/ EmuSeek
    \/ EmuSetSubsong
    \/ EmuRewind
    \/ ComputeNothing
    \/ ComputeBegin(MaxTicks)
    \/ ComputeRender
    \/ ComputeSkipTick
    \/ ComputeTick(MaxTicks)
    \/ ComputeEnd
    \/ ComputeFinish
    \/ MptInit
    \/ MptTeardown
    \/ MptLoadFile
    \/ MptCompute
    \/ MptSeek
    \/ MptSetRepeatCount
    \/ MptRewind

Spec == Init /\ [][Next]_vars

\* the store and the provider, with the names of StoreNames registered and
\* the names of RequestNames asked for
InitStore == Init /\ adapter = "adplug"

NextStore ==
    \/ EmuInit
    \/ EmuTeardown
    \/ EmuAddFile(StoreNames)
    \/ EmuLoadFile(StoreNames, StoreRequests)

SpecStore == InitStore /\ [][NextStore]_vars

\* the session of the tick surface with a bank file beside the song
NextAux ==
    \/ EmuInit
    \/ EmuTeardown
    \/ EmuAddFile(BankNames)
    \/ EmuLoadFile(BankNames, BankRequests)
    \/ EmuSeek
    \/ ComputeNothing
    \/ ComputeBegin(AuxTicks)
    \/ ComputeRender
    \/ ComputeSkipTick
    \/ ComputeTick(AuxTicks)
    \/ ComputeEnd
    \/ ComputeFinish

SpecAux == InitStore /\ [][NextAux]_vars

\* the playback scenario: init(49716), one successful loadFile, then
\* computeSamples again and again until it returns 1
PlayInit ==
    /\ EmuIdle
    /\ ~emu.g_opl
    /\ emu' = emu_init(emu, DefaultSampleRate)
    /\ last' = Done("init", 0, FALSE)
    /\ UNCHANGED <<adapter, pc, samplesGenerated, written, mpt>>

PlayLoad ==
    /\ EmuIdle
    /\ emu.g_opl
    /\ ~emu.g_player.loaded
    /\ \E a \in ValidArgs(Names) :
        LET o == emu_load_file(emu, a.filename, a.data, a.size, TRUE, NullName)
        IN  /\ emu' = o.st
            /\ last' = Registered("loadFile", o.ret, emu, a.filename)
    /\ written' = 0
    /\ UNCHANGED <<adapter, pc, samplesGenerated, mpt>>

Ended == pc = "idle" /\ last.op = "compute" /\ last.ret = 1

PlayBegin == ~Ended /\ ComputeBegin(MaxPlayTicks)

NextPlay ==
    \/ PlayInit
    \/ PlayLoad
    \/ PlayBegin
    \/ ComputeRender
    \/ ComputeSkipTick
    \/ ComputeTick(MaxPlayTicks)
    \/ ComputeEnd
    \/ ComputeFinish

\* the host keeps calling: a call that can be made is made
SpecPlay == InitStore /\ [][NextPlay]_vars /\ WF_vars(NextPlay)

(***************************************************************************)
(* Properties of the provider and the store (SpecStore)                    *)
(***************************************************************************)

\* C1: a request whose full text equals a registered name opens the bytes
\* of that very entry, whatever other entries would match it by filename or
\* by case; so does the auxiliary file a successful loadFile opened.
C1_ExactMatchWins ==
    /\ \A n \in DOMAIN emu.g_files :
        /\ Lookup(emu.g_files, n) = n
        /\ OpenedBytes(emu, n) = emu.g_files[n].data
    /\ (last.op = "loadFile" /\ last.ret = 0
            /\ emu.g_player.auxName \in DOMAIN emu.g_files)
        => emu.g_player.bank = emu.g_files[emu.g_player.auxName].data

\* "a", "A" and "d/a" are registered, "a" with bytes of its own, and the
\* backend has opened "a"
C1_Witness ==
    /\ DOMAIN emu.g_files = StoreNames
    /\ last.op = "loadFile" /\ last.ret = 0
    /\ emu.g_player.auxName = NameLowerA
    /\ emu.g_player.bank = emu.g_files[NameLowerA].data
    /\ emu.g_files[NameUpperA].data /= emu.g_player.bank
    /\ emu.g_files[NameDirLowerA].data /= emu.g_player.bank

\* the part of a path after its last separator, and equality of two names
\* up to the case of ASCII letters, both stated without the code's helpers
BaseOf(path) ==
    LET starts == {i \in 1..(Len(path) + 1) :
                     \A j \in i..Len(path) : path[j] \notin {Slash, Backslash}}
    IN  SubSeq(path, CHOOSE i \in starts : \A j \in starts : i <= j, Len(path))

SameLetter(c, d) ==
    \/ c = d
    \/ c >= UpperA /\ c <= UpperZ /\ d = c + (LowerA - UpperA)
    \/ d >= UpperA /\ d <= UpperZ /\ c = d + (LowerA - UpperA)

SameIgnoringCase(x, y) ==
    Len(x) = Len(y) /\ \A i \in 1..Len(x) : SameLetter(x[i], y[i])

\* C2: a request that equals no registered name still opens an entry when
\* its filename part differs from an entry's only in the case of ASCII
\* letters; an entry whose name is exactly the request's filename part wins
\* over the entries that match only without case; when nothing matches the
\* provider returns null.
C2_FuzzyResolution ==
    /\ \A n \in RequestNames \ DOMAIN emu.g_files :
        LET alike == {k \in DOMAIN emu.g_files :
                        SameIgnoringCase(BaseOf(k), BaseOf(n))}
        IN  /\ alike /= {} => Lookup(emu.g_files, n) \in alike
            /\ BaseOf(n) \in DOMAIN emu.g_files
                => OpenedBytes(emu, n) = emu.g_files[BaseOf(n)].data
            /\ alike = {} => OpenedBytes(emu, n) = NullData
    /\ (last.op = "loadFile" /\ last.ret = 0
            /\ emu.g_player.auxName \notin DOMAIN emu.g_files
            /\ BaseOf(emu.g_player.auxName) \in DOMAIN emu.g_files)
        => emu.g_player.bank = emu.g_files[BaseOf(emu.g_player.auxName)].data

\* "a" and "A" are registered with different bytes, "d/a" is not, and the
\* backend has opened "d/a" and got the bytes of "a"
C2_Witness ==
    /\ DOMAIN emu.g_files = {NameLowerA, NameUpperA}
    /\ emu.g_files[NameLowerA].data /= emu.g_files[NameUpperA].data
    /\ last.op = "loadFile" /\ last.ret = 0
    /\ emu.g_player.auxName = NameDirLowerA
    /\ emu.g_player.bank = emu.g_files[NameLowerA].data

\* the buffers the store owns, as a bag
RECURSIVE EntryBag(_, _)
EntryBag(files, keys) ==
    IF keys = {} THEN EmptyBag
    ELSE LET k == FirstKey(keys)
         IN  SetToBag({files[k].data}) (+) EntryBag(files, keys \ {k})

\* C3: after any sequence of registrations the live buffers are exactly the
\* buffers of the store's entries, one for each name (the buffer a
\* registration replaced was released, and released once: nothing was
\* deleted that was not live), and an open of a name just registered
\* returns the bytes just registered.
C3_Reregistration ==
    /\ ~emu.heapFault
    /\ emu.heap = EntryBag(emu.g_files, DOMAIN emu.g_files) (+) emu.m_streamBuffers
    /\ BagCardinality(emu.heap) = Cardinality(DOMAIN emu.g_files)
    /\ \A a \in ValidArgs(StoreNames) :
        \A s2 \in {emu_add_file(emu, a.filename, a.data, a.size).st} :
            /\ OpenedBytes(s2, a.filename) = Memcpy(a.data, a.size)
            /\ s2.g_files[a.filename].size = a.size

\* addFile has just replaced an entry, beside another entry
C3_Witness ==
    /\ last.op = "addFile" /\ last.ret = 0 /\ last.re
    /\ Cardinality(DOMAIN emu.g_files) >= 2
    /\ BagCardinality(emu.heap) = Cardinality(DOMAIN emu.g_files)

(***************************************************************************)
(* Properties of the session (Spec)                                        *)
(***************************************************************************)

\* the quotas a tick may add: sampleRate / refreshRate, 70 standing in for
\* a rate that is not positive
C4_Quotas ==
    {(emu.g_sampleRate * AccDen) \div r :
        r \in {IF x <= 0 THEN DefaultRefresh ELSE x : x \in RefreshRates}}

C4_Step ==
    pc /= "idle" =>
        /\ emu'.g_sampleAccumulator > emu.g_sampleAccumulator
            => /\ pc = "tick"
               /\ emu'.g_currentTick = emu.g_currentTick + 1
               /\ emu'.g_sampleAccumulator - emu.g_sampleAccumulator \in C4_Quotas
        /\ emu'.g_sampleAccumulator < emu.g_sampleAccumulator
            => /\ pc = "render"
               /\ emu.g_sampleAccumulator - emu'.g_sampleAccumulator
                    = (samplesGenerated' - samplesGenerated) * AccDen
               /\ samplesGenerated' - samplesGenerated
                    <= emu.g_sampleAccumulator \div AccDen

\* C4: the accumulator is never negative; within computeSamples it grows
\* only by one tick's quota, in the step that advances the tick counter by
\* one, and it shrinks only by the number of samples rendered in that step,
\* which is at most its integer part.
C4_TickAccumulator ==
    [](emu.g_sampleAccumulator >= 0) /\ [][C4_Step]_vars

\* a call returned 0 and left a whole sample or more in the accumulator
C4_Witness ==
    /\ pc = "idle" /\ last.op = "compute" /\ last.ret = 0
    /\ emu.g_sampleAccumulator >= AccDen
    /\ emu.g_currentTick >= 2

\* what a host can observe of each surface
EmuObservable(s) ==
    [track |-> s.g_player.loaded, buffer |-> s.g_audioBuffer,
     length |-> s.g_audioBufferLength, position |-> s.g_currentPosition,
     duration |-> s.g_maxPosition, tick |-> s.g_currentTick,
     accumulator |-> s.g_sampleAccumulator, store |-> s.g_files,
     info |-> s.g_info, rate |-> s.g_sampleRate]

MptObservable(s) ==
    [track |-> s.g_module.loaded, buffer |-> s.g_audioBuffer,
     length |-> s.g_audioBufferFrames, position |-> s.g_module.pos,
     info |-> s.g_info, rate |-> s.g_sampleRate, repeat |-> s.g_repeatCount]

\* C5: on both surfaces teardown twice leaves what teardown once leaves,
\* and init(r) twice leaves what init(r) once leaves, from every state.
C5_Idempotent ==
    pc = "idle" =>
        /\ \A t \in {emu_teardown(emu)} :
            EmuObservable(emu_teardown(t)) = EmuObservable(t)
        /\ \A r \in SampleRates : \A i \in {emu_init(emu, r)} :
            EmuObservable(emu_init(i, r)) = EmuObservable(i)
        /\ \A t \in {mpt_teardown(mpt)} :
            MptObservable(mpt_teardown(t)) = MptObservable(t)
        /\ \A r \in SampleRates, ok \in BOOLEAN :
            \A i \in {mpt_init(mpt, r, ok)} :
                /\ MptObservable(mpt_init(i.st, r, ok).st) = MptObservable(i.st)
                /\ mpt_init(i.st, r, ok).ret = i.ret

\* teardown has just run on a session that had played, and running it again
\* changes nothing
C5_Witness ==
    /\ adapter = "adplug" /\ last.op = "teardown"
    /\ emu.g_currentTick > 0
    /\ ~emu.g_opl /\ ~emu.g_audioBuffer
    /\ emu_teardown(emu) = emu

\* C6 as stated: from every state between two calls, rewind() followed by
\* getPositionMs() returns 0, a track being loaded or not.
C6_RewindAlwaysZero ==
    (adapter = "adplug" /\ pc = "idle")
        => emu_get_current_position(emu_rewind(emu)) = 0

\* C6: with a track loaded, rewind() followed by getPositionMs() returns 0
\* and rewind() resets the accumulator, the tick counter and the total of
\* samples to 0; with no track loaded rewind() changes nothing, so
\* getPositionMs() returns what it returned before, which is 0 right after
\* init or teardown.
C6_Rewind ==
    (adapter = "adplug" /\ pc = "idle") =>
        \A r \in {emu_rewind(emu)} :
            /\ emu.g_player.loaded
                => /\ emu_get_current_position(r) = 0
                   /\ r.g_sampleAccumulator = 0
                   /\ r.g_currentTick = 0
                   /\ r.g_totalSamplesGenerated = 0
            /\ ~emu.g_player.loaded => r = emu
            /\ last.op \in {"init", "teardown"}
                => emu_get_current_position(r) = 0

\* rewind() has run with no track loaded, after a loadFile that failed once
\* the position had moved: the position is still the old one
C6_Witness ==
    /\ adapter = "adplug" /\ last.op = "rewind"
    /\ emu.g_opl /\ ~emu.g_player.loaded
    /\ emu.g_totalSamplesGenerated = 0
    /\ emu_get_current_position(emu) > 0

(***************************************************************************)
(* Properties of the playback scenario (SpecPlay)                          *)
(***************************************************************************)

\* the distance, in samples times 1000, between the samples written and the
\* position reported
PlayDrift ==
    IF written * 1000 >= emu.g_currentPosition * emu.g_sampleRate
    THEN written * 1000 - emu.g_currentPosition * emu.g_sampleRate
    ELSE emu.g_currentPosition * emu.g_sampleRate - written * 1000

C8_Session(s) ==
    [engine |-> s.g_opl, track |-> s.g_player, buffer |-> s.g_audioBuffer,
     length |-> s.g_audioBufferLength, position |-> s.g_currentPosition,
     duration |-> s.g_maxPosition, accumulator |-> s.g_sampleAccumulator,
     total |-> s.g_totalSamplesGenerated, tick |-> s.g_currentTick,
     info |-> s.g_info, rate |-> s.g_sampleRate]

\* C8: addFile with valid arguments returns 0, registers the bytes under
\* the name and changes neither another entry nor the engine, the track,
\* the audio buffer, the transport or the clock; a later loadFile keeps
\* every entry but the one of its own name, so that after addFile of "A" a
\* loadFile of another name whose backend opens "a" is given the bytes
\* registered as "A".
C8_AuxiliaryFiles ==
    (adapter = "adplug" /\ pc = "idle") =>
        /\ \A a \in ValidArgs(BankNames) :
            \A o \in {emu_add_file(emu, a.filename, a.data, a.size)} :
                /\ o.ret = 0
                /\ a.filename \in DOMAIN o.st.g_files
                /\ o.st.g_files[a.filename].data = Memcpy(a.data, a.size)
                /\ \A k \in DOMAIN emu.g_files \ {a.filename} :
                    /\ k \in DOMAIN o.st.g_files
                    /\ o.st.g_files[k] = emu.g_files[k]
                /\ C8_Session(o.st) = C8_Session(emu)
        /\ \A a \in ValidArgs(BankNames), b \in Backend(BankRequests) :
            \A o \in {emu_load_file(emu, a.filename, a.data, a.size,
                                    b.recognised, b.aux)} :
                /\ \A k \in DOMAIN emu.g_files \ {a.filename} :
                    /\ k \in DOMAIN o.st.g_files
                    /\ o.st.g_files[k] = emu.g_files[k]
                /\ (/\ emu.g_opl /\ b.recognised /\ b.aux = NameLowerA
                    /\ a.filename /= NameUpperA
                    /\ NameUpperA \in DOMAIN emu.g_files)
                    => /\ o.ret = 0
                       /\ o.st.g_player.bank = emu.g_files[NameUpperA].data

\* the track playing got the bytes of "A" when its backend opened "a", and
\* addFile has just run while the position and the clock had moved
C8_Witness ==
    /\ last.op = "addFile" /\ last.ret = 0
    /\ emu.g_player.loaded
    /\ emu.g_player.auxName = NameLowerA
    /\ NameUpperA \in DOMAIN emu.g_files
    /\ emu.g_player.bank = emu.g_files[NameUpperA].data
    /\ emu.g_currentTick > 0 /\ emu.g_currentPosition > 0
    /\ emu.g_sampleAccumulator > 0

(***************************************************************************)
(* More properties of the session (Spec)                                   *)
(***************************************************************************)

\* C9: on the frame-pull surface, initialised and with a track loaded,
\* computeSamples does not return 1 while the repeat count set last is -1.
C9_InfiniteRepeat ==
    (/\ adapter = "libopenmpt" /\ last.op = "compute"
     /\ mpt.g_module.loaded /\ mpt.g_audioBuffer
     /\ mpt.g_repeatCount = -1)
        => /\ last.ret = 0
           /\ mpt.g_audioBufferFrames > 0

\* with repeat count -1 the track has been played through and begun again,
\* and computeSamples has returned 0
C9_Witness ==
    /\ adapter = "libopenmpt" /\ last.op = "compute" /\ last.ret = 0
    /\ mpt.g_module.loaded /\ mpt.g_audioBuffer
    /\ mpt.g_repeatCount = -1
    /\ mpt.g_module.loops >= 2

\* the invalid arguments of the frame-pull surface's loadFile: the name is
\* not looked at
MptInvalidArgs ==
    {Args(n, NullData, 1) : n \in {NullName, NameLowerB}}
        \cup {Args(n, <<7>>, z) : n \in {NullName, NameLowerB},
                                  z \in {z \in Sizes : z <= 0}}

\* C10: loadFile and addFile given null data, a size that is not positive
\* or, on the tick surface, a null name return -1 and change nothing.
C10_InvalidArguments ==
    pc = "idle" =>
        /\ \A a \in InvalidArgs(Names) :
            /\ emu_add_file(emu, a.filename, a.data, a.size) = Outcome(emu, -1)
            /\ \A b \in Backend(AuxNames) :
                emu_load_file(emu, a.filename, a.data, a.size,
                              b.recognised, b.aux) = Outcome(emu, -1)
        /\ \A a \in MptInvalidArgs, recognised \in BOOLEAN :
            mpt_load_file(mpt, a.filename, a.data, a.size, recognised)
                = Outcome(mpt, -1)

\* loadFile with invalid arguments has just returned -1 with a track loaded
\* and the position moved, and both are still there
C10_Witness ==
    /\ adapter = "adplug"
    /\ last.op = "loadFile" /\ last.bad /\ last.ret = -1
    /\ emu.g_player.loaded
    /\ emu.g_currentPosition > 0 /\ emu.g_currentTick > 0

\* C11: on both surfaces a loadFile with valid arguments whose backend makes
\* no track returns -1 and leaves no track, the old one destroyed; while no
\* track is loaded computeSamples returns 1, and a track appears again only
\* by a loadFile that returns 0.
C11_NoTrackAfterFailure ==
    pc = "idle" =>
        /\ \A a \in ValidArgs(Names) :
            /\ \A o \in {emu_load_file(emu, a.filename, a.data, a.size,
                                       FALSE, NullName)} :
                /\ o.ret = -1
                /\ ~o.st.g_player.loaded
                /\ ComputeGuardFails(o.st)
            /\ \A o \in {mpt_load_file(mpt, a.filename, a.data, a.size, FALSE)} :
                /\ o.ret = -1
                /\ ~o.st.g_module.loaded
                /\ \A f \in MptFrames : mpt_compute_audio_samples(o.st, f).ret = 1
        /\ (adapter = "adplug" /\ last.op = "compute" /\ ~emu.g_player.loaded)
            => last.ret = 1
        /\ (adapter = "libopenmpt" /\ last.op = "compute" /\ ~mpt.g_module.loaded)
            => last.ret = 1

C11_Step ==
    /\ (~emu.g_player.loaded /\ emu'.g_player.loaded)
        => (last'.op = "loadFile" /\ last'.ret = 0)
    /\ (~mpt.g_module.loaded /\ mpt'.g_module.loaded)
        => (last'.op = "loadFile" /\ last'.ret = 0)

C11_UnrecognisedFormat == []C11_NoTrackAfterFailure /\ [][C11_Step]_vars

\* a track had played, a loadFile then failed (the position is the old
\* one, the total is reset), and computeSamples has returned 1
C11_Witness ==
    /\ adapter = "adplug" /\ last.op = "compute" /\ last.ret = 1
    /\ emu.g_opl /\ emu.g_audioBuffer /\ ~emu.g_player.loaded
    /\ emu.g_currentPosition > 0 /\ emu.g_totalSamplesGenerated = 0

\* C12 as stated: after teardown, and after a loadFile that returned -1,
\* getTrackInfo() returns only empty fields.
C12_MetadataCleared ==
    /\ (/\ adapter = "adplug" /\ pc = "idle"
        /\ \/ last.op = "teardown"
           \/ last.op = "loadFile" /\ last.ret = -1)
        => emu.g_info = <<>>
    /\ (/\ adapter = "libopenmpt"
        /\ \/ last.op = "teardown"
           \/ last.op = "loadFile" /\ last.ret = -1)
        => mpt.g_info = <<>>

\* C12: on both surfaces a loadFile that returns 0 sets the metadata fields
\* to those of the new track, and teardown and a loadFile that returns -1
\* leave them as they were, so that getTrackInfo() goes on returning the
\* fields of the track loaded before; init clears them on the frame-pull
\* surface when it succeeds and leaves them as they were on the tick
\* surface.
C12_Metadata ==
    pc = "idle" =>
        /\ emu_teardown(emu).g_info = emu.g_info
        /\ mpt_teardown(mpt).g_info = mpt.g_info
        /\ \A r \in SampleRates :
            /\ emu_init(emu, r).g_info = emu.g_info
            /\ mpt_init(mpt, r, TRUE).st.g_info = <<>>
            /\ mpt_init(mpt, r, FALSE).st.g_info = mpt.g_info
        /\ \A a \in ValidArgs(Names) :
            /\ \A b \in Backend(AuxNames) :
                \A o \in {emu_load_file(emu, a.filename, a.data, a.size,
                                        b.recognised, b.aux)} :
                    /\ o.ret = -1 => o.st.g_info = emu.g_info
                    /\ o.ret = 0 => o.st.g_info = Memcpy(a.data, a.size)
            /\ \A recognised \in BOOLEAN :
                \A o \in {mpt_load_file(mpt, a.filename, a.data, a.size,
                                        recognised)} :
                    /\ o.ret = -1 => o.st.g_info = mpt.g_info
                    /\ o.ret = 0 => o.st.g_info = Memcpy(a.data, a.size)

\* a loadFile with valid arguments has failed on an initialised session and
\* the fields of the track loaded before are still there
C12_Witness ==
    /\ adapter = "adplug" /\ pc = "idle"
    /\ last.op = "loadFile" /\ last.ret = -1 /\ ~last.bad
    /\ emu.g_opl /\ ~emu.g_player.loaded
    /\ emu.g_info /= <<>>

\* C13: a call of the tick surface's computeSamples never writes more than
\* the 512 samples of a block, each render step staying inside the block;
\* when it returns 0 the valid length is the full block, 512 * 4 bytes;
\* when it returns 1 because a tick reported the end, the valid length is 4
\* times the samples generated in the call, less than a full block.
C13_BlockFill ==
    /\ samplesGenerated <= AUDIO_BUFFER_SIZE
    /\ pc = "render"
        => samplesGenerated + RenderedNow(emu, samplesGenerated) <= AUDIO_BUFFER_SIZE
    /\ (adapter = "adplug" /\ pc = "idle" /\ last.op = "compute" /\ last.ret = 0)
        => /\ samplesGenerated = AUDIO_BUFFER_SIZE
           /\ emu.g_audioBufferLength = AUDIO_BUFFER_SIZE * 2 * 2
    /\ (/\ adapter = "adplug" /\ pc = "idle" /\ last.op = "compute"
        /\ last.ret = 1 /\ ~ComputeGuardFails(emu))
        => /\ samplesGenerated < AUDIO_BUFFER_SIZE
           /\ emu.g_audioBufferLength = 4 * samplesGenerated

\* a call has returned 1 after part of a block
C13_Witness ==
    /\ adapter = "adplug" /\ pc = "idle" /\ last.op = "compute" /\ last.ret = 1
    /\ ~ComputeGuardFails(emu)
    /\ samplesGenerated > 0 /\ samplesGenerated < AUDIO_BUFFER_SIZE
    /\ emu.g_audioBufferLength = 4 * samplesGenerated

\* total / sampleRate * 1000 rounded to the nearest millisecond, and cut to
\* whole milliseconds
RoundedMs(total, rate) == (2 * total * 1000 + rate) \div (2 * rate)

TruncatedMs(total, rate) == (total * 1000) \div rate

\* C14 as stated: the step that ends a call of computeSamples, on a full
\* block or on the end of the song, adds the block's samples to the total
\* and sets the position to the total / sampleRate * 1000 rounded to the
\* nearest millisecond.
C14_RoundedPosition ==
    /\ (pc = "render" /\ samplesGenerated >= AUDIO_BUFFER_SIZE)
        => \A n \in {FinishBlock(emu, samplesGenerated)} :
            /\ n.g_totalSamplesGenerated
                = emu.g_totalSamplesGenerated + samplesGenerated
            /\ n.g_currentPosition
                = RoundedMs(n.g_totalSamplesGenerated, n.g_sampleRate)
    /\ (pc = "tick" /\ samplesGenerated < AUDIO_BUFFER_SIZE)
        => \A n \in {EndBlock(emu, samplesGenerated)} :
            /\ n.g_totalSamplesGenerated
                = emu.g_totalSamplesGenerated + samplesGenerated
            /\ n.g_currentPosition
                = RoundedMs(n.g_totalSamplesGenerated, n.g_sampleRate)

\* C14: a call of computeSamples that returns 0 adds the 512 samples of its
\* block to the total and sets the position to the total / sampleRate *
\* 1000 cut to whole milliseconds; a call that returns 1 on the end of the
\* song changes neither the total nor the position, whatever it wrote.
C14_Position ==
    /\ (pc = "render" /\ samplesGenerated >= AUDIO_BUFFER_SIZE)
        => \A n \in {FinishBlock(emu, samplesGenerated)} :
            /\ n.g_totalSamplesGenerated
                = emu.g_totalSamplesGenerated + AUDIO_BUFFER_SIZE
            /\ n.g_currentPosition
                = TruncatedMs(n.g_totalSamplesGenerated, n.g_sampleRate)
    /\ (pc = "tick" /\ samplesGenerated < AUDIO_BUFFER_SIZE)
        => \A n \in {EndBlock(emu, samplesGenerated)} :
            /\ n.g_totalSamplesGenerated = emu.g_totalSamplesGenerated
            /\ n.g_currentPosition = emu.g_currentPosition
    /\ (adapter = "adplug" /\ pc = "idle" /\ last.op = "compute" /\ last.ret = 0)
        => emu.g_currentPosition
            = TruncatedMs(emu.g_totalSamplesGenerated, emu.g_sampleRate)

\* a call has returned 1 after writing part of a block, and the position
\* is that of the full blocks before, cut where rounding would have raised
\* it
C14_Witness ==
    /\ adapter = "adplug" /\ pc = "idle"
    /\ last.op = "compute" /\ last.ret = 1 /\ ~ComputeGuardFails(emu)
    /\ samplesGenerated > 0
    /\ emu.g_totalSamplesGenerated >= 2 * AUDIO_BUFFER_SIZE
    /\ emu.g_currentPosition
        = TruncatedMs(emu.g_totalSamplesGenerated, emu.g_sampleRate)
    /\ emu.g_currentPosition
        < RoundedMs(emu.g_totalSamplesGenerated, emu.g_sampleRate)

\* C15: with a track loaded, whatever call came before (a seek or a
\* setSubsong also), a call of computeSamples never lowers the position and
\* raises it by at most the duration of one block of 512 samples.  The
\* position moves only in the step that ends the call on a full block.
C15_MonotonePosition ==
    /\ (adapter = "adplug" /\ pc = "render"
            /\ samplesGenerated >= AUDIO_BUFFER_SIZE)
        => \A n \in {FinishBlock(emu, samplesGenerated)} :
            /\ n.g_currentPosition >= emu.g_currentPosition
            /\ (n.g_currentPosition - emu.g_currentPosition) * emu.g_sampleRate
                <= AUDIO_BUFFER_SIZE * 1000
    /\ (adapter = "adplug" /\ pc = "tick"
            /\ samplesGenerated < AUDIO_BUFFER_SIZE)
        => EndBlock(emu, samplesGenerated).g_currentPosition
            = emu.g_currentPosition

(***************************************************************************)
(* The provider with streams that stay open between the calls of the host: *)
(* the backend opens a stream at any time of an initialised session, and   *)
(* closes a stream it holds at any time, or never.  It holds at most       *)
(* MaxStreams streams at a time.                                           *)
(***************************************************************************)
MaxStreams == 2

StreamNames == {NameLowerA, NameUpperA}
StreamRequests == {NameLowerA, NameDirLowerA, NameLowerB}

BackendOpen ==
    /\ EmuIdle
    /\ emu.g_opl
    /\ BagCardinality(emu.m_streamBuffers) < MaxStreams
    /\ \E n \in StreamRequests :
        /\ emu' = ProviderOpen(emu, n)
        /\ last' = Done("open", IF OpenedBytes(emu, n) = NullData THEN -1 ELSE 0,
                        FALSE)
    /\ UNCHANGED <<adapter, pc, samplesGenerated, written, mpt>>

BackendClose ==
    /\ EmuIdle
    /\ \E f \in BagToSet(emu.m_streamBuffers) : emu' = ProviderClose(emu, f)
    /\ last' = Done("close", 0, FALSE)
    /\ UNCHANGED <<adapter, pc, samplesGenerated, written, mpt>>

NextStream ==
    \/ EmuInit
    \/ EmuTeardown
    \/ EmuAddFile(StreamNames)
    \/ EmuLoadFile(StreamNames, AuxNames)
    \/ BackendOpen
    \/ BackendClose

SpecStream == InitStore /\ [][NextStream]_vars

\* every live buffer is the buffer of one store entry or the private buffer
\* of one open stream, and nothing was freed that was not live
BuffersAccounted(s) ==
    /\ ~s.heapFault
    /\ s.heap = EntryBag(s.g_files, DOMAIN s.g_files) (+) s.m_streamBuffers

\* C16: the buffer of an open stream is a copy of its own, holding the
\* bytes the name resolved to when it was opened; addFile, loadFile, init
\* and teardown leave every open stream's bytes as they are, and open and
\* close leave every store entry as it is.
C16_CopyOnOpen ==
    /\ BuffersAccounted(emu)
    /\ \A n \in StreamRequests : \A o \in {ProviderOpen(emu, n)} :
        /\ o.g_files = emu.g_files
        /\ BuffersAccounted(o)
        /\ o.m_streamBuffers =
            IF Lookup(emu.g_files, n) = NoKey THEN emu.m_streamBuffers
            ELSE emu.m_streamBuffers
                    (+) SetToBag({emu.g_files[Lookup(emu.g_files, n)].data})
    /\ \A f \in BagToSet(emu.m_streamBuffers) : \A o \in {ProviderClose(emu, f)} :
        /\ o.g_files = emu.g_files
        /\ BuffersAccounted(o)
    /\ \A a \in ValidArgs(StreamNames) :
        /\ \A o \in {emu_add_file(emu, a.filename, a.data, a.size).st} :
            o.m_streamBuffers = emu.m_streamBuffers /\ BuffersAccounted(o)
        /\ \A b \in Backend(AuxNames) :
            \A o \in {emu_load_file(emu, a.filename, a.data, a.size,
                                    b.recognised, b.aux).st} :
                o.m_streamBuffers = emu.m_streamBuffers /\ BuffersAccounted(o)
    /\ \A o \in {emu_teardown(emu)} :
        o.m_streamBuffers = emu.m_streamBuffers /\ BuffersAccounted(o)
    /\ \A r \in SampleRates : \A o \in {emu_init(emu, r)} :
        o.m_streamBuffers = emu.m_streamBuffers /\ BuffersAccounted(o)

\* addFile has replaced an entry while a stream opened on the old bytes is
\* open: the stream holds bytes no entry holds any more
C16_Witness ==
    /\ last.op = "addFile" /\ last.re
    /\ emu.g_files /= NoFiles
    /\ \E f \in BagToSet(emu.m_streamBuffers) :
        \A k \in DOMAIN emu.g_files : emu.g_files[k].data /= f

C18_RepeatCount ==
    /\ mpt.g_module.loaded => mpt.g_module.repeat = mpt.g_repeatCount
    /\ last.op = "none" => mpt.g_repeatCount = 0
    /\ \A c \in RepeatCounts : \A o \in {mpt_set_repeat_count(mpt, c)} :
        /\ o.g_repeatCount = c
        /\ o.g_module.loaded = mpt.g_module.loaded
        /\ o.g_module.loaded => o.g_module.repeat = c
    /\ mpt_teardown(mpt).g_repeatCount = mpt.g_repeatCount
    /\ mpt_rewind(mpt).g_repeatCount = mpt.g_repeatCount
    /\ \A x \in MptSeekTargets :
        mpt_set_position_seconds(mpt, x).g_repeatCount = mpt.g_repeatCount
    /\ \A f \in MptFrames :
        mpt_compute_audio_samples(mpt, f).st.g_repeatCount = mpt.g_repeatCount
    /\ \A r \in SampleRates, ok \in BOOLEAN :
        mpt_init(mpt, r, ok).st.g_repeatCount = mpt.g_repeatCount
    /\ \A a \in ValidArgs(Names), recognised \in BOOLEAN :
        mpt_load_file(mpt, a.filename, a.data, a.size, recognised).st.g_repeatCount
            = mpt.g_repeatCount

\* a module has just been loaded into a session whose repeat count had been
\* set to 1 before, and it has that count
C18_Witness ==
    /\ adapter = "libopenmpt"
    /\ last.op = "loadFile" /\ last.ret = 0
    /\ mpt.g_module.loaded
    /\ mpt.g_repeatCount = 1
    /\ mpt.g_module.repeat = 1

(***************************************************************************)
(* Calls of computeSamples whose ticks never report the end unless the     *)
(* backend chooses to: after init(49716) and a successful loadFile a call  *)
(* begins while the tick counter is below MaxTermStart, and each tick      *)
(* reports a refresh rate of TermRefreshRates.  The tick counter is        *)
(* followed up to TermTickCap.                                             *)
(***************************************************************************)
MaxTermStart == 2

TermRefreshRates == {-1, 0, 70, 700}

\* the smallest quota a tick adds when a rate that is not positive counts
\* as 70, and the ticks it takes to fill a block with it
TermMinQuota ==
    LET quotas == {(DefaultSampleRate * AccDen) \div
                      (IF r <= 0 THEN DefaultRefresh ELSE r) : r \in TermRefreshRates}
    IN  CHOOSE q \in quotas : \A p \in quotas : q <= p

TermTicksPerBlock ==
    (AUDIO_BUFFER_SIZE * AccDen + TermMinQuota - 1) \div TermMinQuota

TermTickCap == MaxTermStart + TermTicksPerBlock

TermBegin == ComputeBegin(MaxTermStart)

TermTick ==
    /\ pc = "tick"
    /\ samplesGenerated < AUDIO_BUFFER_SIZE
    /\ emu.g_currentTick < TermTickCap
    /\ \E refreshRate \in TermRefreshRates : emu' = TickOn(emu, refreshRate)
    /\ pc' = "render"
    /\ UNCHANGED <<adapter, samplesGenerated, written, mpt, last>>

NextTerm ==
    \/ PlayInit
    \/ PlayLoad
    \/ TermBegin
    \/ ComputeRender
    \/ ComputeSkipTick
    \/ TermTick
    \/ ComputeEnd
    \/ ComputeFinish

\* a call under way goes on: the code's loop does not wait
SpecTerm == InitStore /\ [][NextTerm]_vars /\ WF_vars(NextTerm)

C19_Bounded ==
    /\ TermMinQuota > 0
    /\ pc /= "idle" => emu.g_currentTick < TermTickCap
    /\ (pc = "idle" /\ last.op = "compute" /\ last.ret = 0)
        => samplesGenerated = AUDIO_BUFFER_SIZE
    /\ (pc = "idle" /\ last.op = "compute" /\ last.ret = 1)
        => samplesGenerated < AUDIO_BUFFER_SIZE

C19_Step ==
    pc /= "idle" =>
        /\ (pc = "tick" /\ samplesGenerated < AUDIO_BUFFER_SIZE)
            => emu'.g_currentTick = emu.g_currentTick + 1
        /\ ~(pc = "tick" /\ samplesGenerated < AUDIO_BUFFER_SIZE)
            => emu'.g_currentTick = emu.g_currentTick
        /\ (emu'.g_currentTick /= emu.g_currentTick /\ pc' /= "idle")
            => emu'.g_sampleAccumulator
                >= emu.g_sampleAccumulator + TermMinQuota

\* C19: every call of the tick surface's computeSamples returns, whatever
\* refresh rate each tick reports, zero and negative ones too: every tick
\* that goes on adds a positive quota, at least that of the highest rate,
\* so a call makes no more ticks than it takes to fill a block with that
\* quota; it returns with a full block or at the tick that reports the end;
\* the tick counter goes up by one in every tick step and in no other.
C19_Termination ==
    /\ []C19_Bounded
    /\ [][C19_Step]_vars
    /\ (pc /= "idle") ~> (pc = "idle")

\* a first call has filled its block in as many ticks as the smallest
\* quota takes
C19_Witness ==
    /\ pc = "idle" /\ last.op = "compute" /\ last.ret = 0
    /\ emu.g_totalSamplesGenerated = AUDIO_BUFFER_SIZE
    /\ emu.g_currentTick = TermTicksPerBlock

\* C20: on both surfaces a track is loaded only while the session is
\* initialised (the audio buffer allocated and, on the tick surface, the
\* engine made); a loadFile on a session that is not initialised returns -1
\* and loads no track; teardown leaves no track, no engine and no buffer.
C20_Lifecycle ==
    /\ emu.g_player.loaded => (emu.g_opl /\ emu.g_audioBuffer)
    /\ mpt.g_module.loaded => mpt.g_audioBuffer
    /\ pc = "idle" =>
        /\ \A a \in ValidArgs(Names) :
            /\ ~emu.g_opl =>
                \A b \in Backend(AuxNames) :
                    \A o \in {emu_load_file(emu, a.filename, a.data, a.size,
                                            b.recognised, b.aux)} :
                        o.ret = -1 /\ ~o.st.g_player.loaded
            /\ ~mpt.g_audioBuffer =>
                \A recognised \in BOOLEAN :
                    \A o \in {mpt_load_file(mpt, a.filename, a.data, a.size,
                                            recognised)} :
                        o.ret = -1 /\ ~o.st.g_module.loaded
        /\ \A o \in {emu_teardown(emu)} :
            ~o.g_player.loaded /\ ~o.g_opl /\ ~o.g_audioBuffer
        /\ \A o \in {mpt_teardown(mpt)} :
            ~o.g_module.loaded /\ ~o.g_audioBuffer

====
